---- MODULE Spec2Model ----
(***************************************************************************)
(* State-machine model of the DApp ranking indexer (surfsui-indexer).      *)
(*                                                                         *)
(* The shared DAppIndexer (src/src/dapp_indexer.rs) sits behind a tokio    *)
(* Mutex.  Pool workers (src/src/bin/dapp_checkpoint_processor.rs) and the *)
(* background ranking job take that mutex, change the in-memory log and    *)
(* ranking and write the ranking to the dapp_rankings table through the    *)
(* statements of src/src/database.rs.  Every SQL statement is its own      *)
(* step: the code opens no transaction, so the table is visible to other   *)
(* database sessions between any two statements.                           *)
(*                                                                         *)
(* Time is counted in days, so the 24 hour window is 1.                     *)
(***************************************************************************)
EXTENDS Integers, Sequences, FiniteSets, TLC

\* ------------------------------------------------------------------ bounds

\* The clock stops advancing at MaxTime.
MaxTime == 2

\* Number of checkpoints the ingestion runtime delivers in one run.
MaxBatches == 2

\* Longest interaction log the calculator specification starts from.
MaxLogLen == 3

\* The events of a checkpoint of the batch driver are at most this many.
MaxEvents == 3

\* 24 * 60 * 60 seconds, in days.
Window == 1

\* ---------------------------------------------------------------- registry

\* Three of the registry's package ids: two packages of Cetus AMM and Turbos.
CetusA == "0x6f5e"
CetusB == "0x3864"
Turbos == "0x2476"

\* The Sui framework package: in cleanup's tracked list, not in the registry.
SuiFramework == "0x0002"

\* A package id known to neither list.
Untracked == "0xdead"

\* package_id -> (dapp_name, dapp_type)
dapp_names ==
    (CetusA :> <<"Cetus AMM", "DEX">>) @@
    (CetusB :> <<"Cetus AMM", "DEX">>) @@
    (Turbos :> <<"Turbos", "DEX">>)

\* The display names of the registry.
DappNameSet == {dapp_names[k][1] : k \in DOMAIN dapp_names}

\* The package ids cleanup_unknown_dapps keeps.
tracked_package_ids == {CetusA, CetusB, Turbos, SuiFramework}

\* --------------------------------------------------------------- utilities

\* All orderings of the finite set S, as sequences without repetition.
Perms(S) ==
    {f \in [1..Cardinality(S) -> S] : \A i, j \in 1..Cardinality(S) : f[i] = f[j] => i = j}

\* All sequences over S of length at most n.
SeqsUpTo(S, n) == UNION {[1..k -> S] : k \in 0..n}

\* The elements of a sequence.
Range(s) == {s[i] : i \in 1..Len(s)}

\* The iteration orders a HashMap keyed by display name can have: the hasher
\* is seeded per map, so each map built by the calculator may use any of them.
HashOrders == Perms(DappNameSet)

\* The iteration orders of the registry map that differ in which package id
\* of a display name comes first: the only thing find() reads from the order.
RegistryOrders == {<<CetusA, CetusB, Turbos>>, <<Turbos, CetusB, CetusA>>}

\* ------------------------------------------------------------ the extractor

\* self.dapp_names.get(&package_id): the display name of a registered
\* package, or None.
dapp_names_getMutantAlways(package_id) ==
    [some |-> TRUE,
     dapp_name |-> IF package_id \in DOMAIN dapp_names
                   THEN dapp_names[package_id][1] ELSE "Unknown"]

dapp_names_get(package_id) ==
    IF package_id \in DOMAIN dapp_names
    THEN [some |-> TRUE, dapp_name |-> dapp_names[package_id][1]]
    ELSE [some |-> FALSE, dapp_name |-> ""]

\* sender.is_empty()
is_emptyMutantNever(sender) == FALSE

is_emptyMutantInverted(sender) == sender # ""

is_empty(sender) == sender = ""

\* One transaction's interactions: one per event of a registered package
\* whose sender is not empty, in event order.
RECURSIVE ExtractEvents(_, _, _)
ExtractEvents(events, tx_digest, checkpoint_timestamp) ==
    IF events = <<>> THEN <<>>
    ELSE LET event == Head(events)
             rest  == ExtractEvents(Tail(events), tx_digest, checkpoint_timestamp)
             found == dapp_names_get(event.package_id)
         IN IF found.some
            THEN IF is_empty(event.sender)
                 THEN rest
                 ELSE <<[package_id         |-> event.package_id,
                         sender             |-> event.sender,
                         timestamp          |-> checkpoint_timestamp,
                         transaction_digest |-> tx_digest,
                         dapp_name          |-> found.dapp_name]>> \o rest
            ELSE rest

extract_dapp_interactions(transaction, checkpoint_timestamp) ==
    ExtractEvents(transaction.events, transaction.digest, checkpoint_timestamp)

\* The interactions of all transactions of a checkpoint, in transaction order.
ExtractAllMutantLastOnly(transactions, checkpoint_timestamp) ==
    IF transactions = <<>> THEN <<>>
    ELSE extract_dapp_interactions(transactions[Len(transactions)],
                                   checkpoint_timestamp)

RECURSIVE ExtractAll(_, _)
ExtractAll(transactions, checkpoint_timestamp) ==
    IF transactions = <<>> THEN <<>>
    ELSE extract_dapp_interactions(Head(transactions), checkpoint_timestamp)
         \o ExtractAll(Tail(transactions), checkpoint_timestamp)

\* ------------------------------------------------------------------ the log

\* retain()'s predicate: inside the window and from a registered package.
RetainMutantStrict(interaction, twenty_four_hours_ago) ==
    /\ interaction.timestamp > twenty_four_hours_ago
    /\ interaction.package_id \in DOMAIN dapp_names

RetainMutantNoWindow(interaction, twenty_four_hours_ago) ==
    interaction.package_id \in DOMAIN dapp_names

Retain(interaction, twenty_four_hours_ago) ==
    /\ interaction.timestamp >= twenty_four_hours_ago
    /\ interaction.package_id \in DOMAIN dapp_names

\* Vec::retain: keeps, in order, the interactions the predicate accepts.
RECURSIVE RetainAll(_, _)
RetainAll(interactions, twenty_four_hours_ago) ==
    IF interactions = <<>> THEN <<>>
    ELSE (IF Retain(Head(interactions), twenty_four_hours_ago)
          THEN <<Head(interactions)>> ELSE <<>>)
         \o RetainAll(Tail(interactions), twenty_four_hours_ago)

prune_old_interactionsMutantKeeps(interactions, system_time) == interactions

prune_old_interactionsMutantDropsOldest(interactions, system_time) ==
    IF interactions = <<>> THEN <<>>
    ELSE RetainAll(Tail(interactions), system_time - Window)

prune_old_interactions(interactions, system_time) ==
    RetainAll(interactions, system_time - Window)

\* ----------------------------------------------------------- the calculator

\* entry(dapp_name).or_insert_with(HashSet::new).insert(sender)
InsertUserMutantCount(counts, dapp_name, sender) ==
    IF dapp_name \in DOMAIN counts
    THEN [counts EXCEPT ![dapp_name] = @ \cup {<<sender, Cardinality(@)>>}]
    ELSE (dapp_name :> {sender}) @@ counts

InsertUserMutantPerInteraction(counts, dapp_name, sender) ==
    IF dapp_name \in DOMAIN counts
    THEN [counts EXCEPT ![dapp_name] = @ \cup {<<sender, Cardinality(@)>>}]
    ELSE (dapp_name :> {<<sender, 0>>}) @@ counts

InsertUser(counts, dapp_name, sender) ==
    IF dapp_name \in DOMAIN counts
    THEN [counts EXCEPT ![dapp_name] = @ \cup {sender}]
    ELSE (dapp_name :> {sender}) @@ counts

\* Whether the calculator counts an interaction: inside the window and from a
\* registered package.
Counted(interaction, twenty_four_hours_ago) ==
    /\ interaction.timestamp >= twenty_four_hours_ago
    /\ interaction.package_id \in DOMAIN dapp_names

\* The key an interaction is counted under: the display name of its package.
GroupKeyMutantPackage(interaction) == interaction.package_id

GroupKey(interaction) == dapp_names[interaction.package_id][1]

\* The loop over the log that fills dapp_user_counts: display name -> senders.
RECURSIVE CountUsers(_, _, _)
CountUsers(interactions, twenty_four_hours_ago, counts) ==
    IF interactions = <<>> THEN counts
    ELSE LET interaction == Head(interactions)
         IN CountUsers(Tail(interactions), twenty_four_hours_ago,
                IF Counted(interaction, twenty_four_hours_ago)
                THEN InsertUser(counts, GroupKey(interaction), interaction.sender)
                ELSE counts)

\* dapp_names.iter().find(|(_, (name, _))| name == dapp_name), walking the
\* registry in its iteration order; "none" when no key has the name.
FindKeyMutantFirst(registry_order, dapp_name) == Head(registry_order)

RECURSIVE FindKey(_, _)
FindKey(registry_order, dapp_name) ==
    IF registry_order = <<>> THEN "none"
    ELSE IF dapp_names[Head(registry_order)][1] = dapp_name
         THEN Head(registry_order)
         ELSE FindKey(Tail(registry_order), dapp_name)

\* The closure of the map(): one DAppRanking of rank 0 per counted name.
\* Its last_update, the clock reading, is left out: nothing reads it.
MakeRanking(dapp_name, users, registry_order) ==
    LET key == FindKey(registry_order, dapp_name)
    IN [rank        |-> 0,
        package_id  |-> IF key = "none" THEN "unknown" ELSE key,
        dapp_name   |-> dapp_name,
        dau_24h     |-> Cardinality(users),
        dapp_type   |-> IF key = "none" THEN "Unknown" ELSE dapp_names[key][2]]

\* into_iter().map().collect(): the map's entries in its iteration order.
CollectRankingsMutantAllNames(hash_order, counts, registry_order) ==
    [i \in 1..Len(hash_order) |->
        MakeRanking(hash_order[i],
                    IF hash_order[i] \in DOMAIN counts THEN counts[hash_order[i]] ELSE {},
                    registry_order)]

RECURSIVE CollectRankings(_, _, _)
CollectRankings(hash_order, counts, registry_order) ==
    IF hash_order = <<>> THEN <<>>
    ELSE (IF Head(hash_order) \in DOMAIN counts
          THEN <<MakeRanking(Head(hash_order), counts[Head(hash_order)],
                             registry_order)>>
          ELSE <<>>)
         \o CollectRankings(Tail(hash_order), counts, registry_order)

\* The comparator of sort_by: b.dau_24h.cmp(&a.dau_24h) puts a before b when
\* a's count is larger; equal counts keep their order (the sort is stable).
GoesBeforeMutantAscending(a, b) == a.dau_24h <= b.dau_24h

GoesBefore(a, b) == a.dau_24h >= b.dau_24h

\* Inserts x behind every element that goes before it.
RECURSIVE InsertSorted(_, _)
InsertSorted(sorted, x) ==
    IF sorted = <<>> THEN <<x>>
    ELSE IF GoesBefore(Head(sorted), x)
         THEN <<Head(sorted)>> \o InsertSorted(Tail(sorted), x)
         ELSE <<x>> \o sorted

\* rankings.sort_by(...): a stable sort by count, descending.
RECURSIVE SortRankings(_, _)
SortRankings(rankings, sorted) ==
    IF rankings = <<>> THEN sorted
    ELSE SortRankings(Tail(rankings), InsertSorted(sorted, Head(rankings)))

\* ranking.rank = (index + 1) for the 0-based index of the list.
RankOfMutantZeroBased(index) == index - 1

RankOf(index) == index

AssignRanks(rankings) ==
    [i \in 1..Len(rankings) |-> [rankings[i] EXCEPT !.rank = RankOf(i)]]

\* The ranking list update_dapp_rankings_24h stores, for the log, the clock
\* reading and the iteration orders of the two hash maps.
update_dapp_rankings_24h(interactions, system_time, hash_order, registry_order) ==
    LET counts == CountUsers(interactions, system_time - Window, <<>>)
    IN AssignRanks(SortRankings(
           CollectRankings(hash_order, counts, registry_order), <<>>))

\* ------------------------------------------------------------- persistence

\* The row the INSERT of save_rankings_from_memory writes for one ranking:
\* (rank_position, package_id, dapp_name, dau_1h, dapp_type).
RowOf(ranking) ==
    [rank_position |-> ranking.rank,
     package_id    |-> ranking.package_id,
     dapp_name     |-> ranking.dapp_name,
     dau_1h        |-> ranking.dau_24h,
     dapp_type     |-> ranking.dapp_type]

\* The rows of a ranking list.
RowsOf(rankings) == {RowOf(rankings[i]) : i \in 1..Len(rankings)}

\* DELETE FROM dapp_rankings WHERE dapp_name = 'Unknown DApp'
\*     OR package_id NOT IN (tracked_package_ids): the rows that stay.
CleanupKeeps(rows) ==
    {row \in rows : /\ row.dapp_name # "Unknown DApp"
                    /\ row.package_id \in tracked_package_ids}

\* The table's primary key is package_id: an INSERT that repeats a key,
\* among its own rows or against the table, is refused as a whole.
InsertAllowed(rows, new_rows) ==
    /\ \A r1 \in new_rows : \A r2 \in rows : r1.package_id # r2.package_id
    /\ \A r1, r2 \in new_rows : r1.package_id = r2.package_id => r1 = r2

\* ------------------------------------------------------------------ inputs

alice == "0xa11ce"
bob   == "0xb0b"

\* The transaction lists a delivered checkpoint may carry.
BatchMenu ==
    { <<[digest |-> "txA",
         events |-> <<[package_id |-> CetusA, sender |-> alice]>>]>>,
      <<[digest |-> "txB1",
         events |-> <<[package_id |-> CetusB, sender |-> alice],
                      [package_id |-> SuiFramework, sender |-> bob]>>],
        [digest |-> "txB2",
         events |-> <<[package_id |-> Turbos, sender |-> bob]>>]>> }

\* What the table may hold when the process starts: nothing, or the rows a
\* previous deployment left (one of a package that is tracked no longer).
PriorTables ==
    { {},
      { [rank_position |-> 1, package_id |-> Turbos, dapp_name |-> "Turbos",
         dau_1h |-> 2, dapp_type |-> "DEX"],
        [rank_position |-> 2, package_id |-> Untracked, dapp_name |-> "Retired",
         dau_1h |-> 1, dapp_type |-> "DEX"] } }

\* ------------------------------------------------------------------- state

\* Two of the pool's worker slots, and the ranking job.
Workers == {"worker1", "worker2"}
Timer   == "ranking_job"
Tasks   == Workers \cup {Timer}

\* The mutex's value when no task holds it.
Free == "free"

NoCheckpoint == [sequence_number |-> -1, timestamp |-> 0, transactions |-> <<>>]

VARIABLES
    clock,                      \* SystemTime::now()
    dapp_interactions,          \* DAppIndexer.dapp_interactions
    dapp_rankings,              \* DAppIndexer.dapp_rankings
    last_processed_checkpoint,  \* DAppIndexer.last_processed_checkpoint
    registry_order,             \* iteration order of DAppIndexer.dapp_names
    mutex,                      \* holder of the indexer's tokio Mutex, or Free
    pc,                         \* where each task is
    main_pc,                    \* where main() is
    use_database,               \* USE_DATABASE
    checkpoint,                 \* the checkpoint each worker was handed
    next_checkpoint,            \* sequence number of the next checkpoint
    result,                     \* outcome of the last update_data_in_database
    table,                      \* rows of dapp_rankings in PostgreSQL
    committed,                  \* history: rows of the last INSERT that succeeded
    publish_prior,              \* history: table when update_data_in_database was called
    save_prior,                 \* history: table when save_rankings_from_memory was called
    stage,                      \* where the calculator's driver is (SpecCalc only)
    calc_input,                 \* history: the log the last prune of the driver was given
    returned                    \* what process_checkpoint returned (SpecBatch only)

vars == <<clock, dapp_interactions, dapp_rankings, last_processed_checkpoint,
          registry_order, mutex, pc, main_pc, use_database, checkpoint,
          next_checkpoint, result, table, committed, publish_prior, save_prior,
          stage, calc_input, returned>>

history_vars == <<committed, publish_prior, save_prior>>
pool_vars    == <<checkpoint, next_checkpoint>>
config_vars  == <<registry_order, use_database, stage, calc_input, returned>>

\* The tasks inside the critical section on the indexer: between the return
\* of indexer.lock().await and the drop of the guard.
CriticalPcs == {"cleanup", "save", "insert"}
InCritical(t) == pc[t] \in CriticalPcs

\* DAppIndexer::new() and the state main() starts from. The registry's map
\* iterates in one order here; the calculator's driver covers the other.
Init ==
    /\ clock = 0
    /\ dapp_interactions = <<>>
    /\ dapp_rankings = <<>>
    /\ last_processed_checkpoint = 0
    /\ registry_order = <<CetusA, CetusB, Turbos>>
    /\ mutex = Free
    /\ pc = [t \in Tasks |-> "idle"]
    /\ main_pc = "start"
    /\ use_database \in BOOLEAN
    /\ checkpoint = [w \in Workers |-> NoCheckpoint]
    /\ next_checkpoint = 0
    /\ result = "none"
    /\ table \in PriorTables
    /\ committed = table
    /\ publish_prior = {}
    /\ save_prior = {}
    /\ stage = "system"
    /\ calc_input = <<>>
    /\ returned = <<>>

\* ------------------------------------------------------------------ main()

\* USE_DATABASE=false: no reset, and no ranking job is started.
StartWithoutDatabase ==
    /\ main_pc = "start"
    /\ ~use_database
    /\ main_pc' = "running"
    /\ UNCHANGED <<clock, dapp_interactions, dapp_rankings, last_processed_checkpoint,
                   mutex, pc, pool_vars, result, table, history_vars, config_vars>>

\* reset_database_and_memory under the lock: reset_all_data deletes every row,
\* then the log, the ranking and the checkpoint number are cleared; when the
\* database refuses, main() returns the error.
StartResetMutantClearsFirst ==
    /\ main_pc = "start"
    /\ use_database
    /\ mutex = Free
    /\ dapp_interactions' = <<>>
    /\ dapp_rankings' = <<>>
    /\ last_processed_checkpoint' = 0
    /\ \/ /\ table' = {}
          /\ committed' = {}
          /\ main_pc' = "running"
       \/ /\ main_pc' = "exited"
          /\ UNCHANGED <<table, committed>>
    /\ UNCHANGED <<clock, mutex, pc, pool_vars, result, publish_prior, save_prior,
                   config_vars>>

StartReset ==
    /\ main_pc = "start"
    /\ use_database
    /\ mutex = Free
    /\ \/ /\ table' = {}
          /\ committed' = {}
          /\ dapp_interactions' = <<>>
          /\ dapp_rankings' = <<>>
          /\ last_processed_checkpoint' = 0
          /\ main_pc' = "running"
       \/ /\ main_pc' = "exited"
          /\ UNCHANGED <<table, committed, dapp_interactions, dapp_rankings,
                         last_processed_checkpoint>>
    /\ UNCHANGED <<clock, mutex, pc, pool_vars, result, publish_prior, save_prior,
                   config_vars>>

\* ------------------------------------------------------------- environment

\* Time passes.
Tick ==
    /\ stage = "system"
    /\ clock < MaxTime
    /\ clock' = clock + 1
    /\ UNCHANGED <<dapp_interactions, dapp_rankings, last_processed_checkpoint,
                   mutex, pc, main_pc, pool_vars, result, table, history_vars,
                   config_vars>>

\* The timestamps a checkpoint delivered now may carry: the present one, or,
\* when history is replayed, one that is already outside the window.
CheckpointTimes == {clock} \cup ({clock - Window - 1} \cap Nat)

\* The worker pool hands the next checkpoint to an idle worker slot (the
\* lowest: the slots are interchangeable), which calls process_checkpoint
\* and waits for the lock.
\* The sequence number the progress file makes the executor start from.
FirstCheckpoint == 9

\* The first idle slot of the pool.
LowestIdle ==
    IF pc["worker1"] = "idle" THEN "worker1" ELSE "worker2"

Deliver(w) ==
    /\ main_pc = "running"
    /\ pc[w] = "idle"
    /\ w = LowestIdle
    /\ next_checkpoint < MaxBatches
    /\ \E transactions \in BatchMenu, timestamp \in CheckpointTimes :
           checkpoint' = [checkpoint EXCEPT ![w] =
               [sequence_number |-> FirstCheckpoint + next_checkpoint,
                timestamp       |-> timestamp,
                transactions    |-> transactions]]
    /\ next_checkpoint' = next_checkpoint + 1
    /\ pc' = [pc EXCEPT ![w] = "wait"]
    /\ UNCHANGED <<clock, dapp_interactions, dapp_rankings, last_processed_checkpoint,
                   mutex, main_pc, result, table, history_vars, config_vars>>

\* interval.tick() returns: the ranking job wakes up and waits for the lock.
IntervalTick ==
    /\ main_pc = "running"
    /\ use_database
    /\ pc[Timer] = "idle"
    /\ pc' = [pc EXCEPT ![Timer] = "wait"]
    /\ UNCHANGED <<clock, dapp_interactions, dapp_rankings, last_processed_checkpoint,
                   mutex, main_pc, pool_vars, result, table, history_vars,
                   config_vars>>

\* ---------------------------------------------------------- critical section

\* Whether a task's indexer.lock().await may return.
LockGrantedMutantNoExclusion(t) == pc[t] = "wait"

LockGranted(t) == pc[t] = "wait" /\ mutex = Free

\* Whether process_checkpoint recomputes the ranking for a checkpoint.
ShouldUpdateMutantFiveOrMore(sequence_number, all_interactions) ==
    \/ sequence_number % 10 = 0
    \/ Len(all_interactions) >= 5

ShouldUpdate(sequence_number, all_interactions) ==
    \/ sequence_number % 10 = 0
    \/ Len(all_interactions) > 5

\* The end of a critical section: process_checkpoint stores the checkpoint
\* number and the worker returns Ok(()), the ranking job logs the outcome and
\* loops; the guard is dropped either way.
FinishMutantSkipsCheckpoint(t) ==
    /\ pc' = [pc EXCEPT ![t] = "idle"]
    /\ mutex' = Free
    /\ publish_prior' = {}
    /\ save_prior' = {}
    /\ checkpoint' = [checkpoint EXCEPT ![t] = NoCheckpoint]
    /\ UNCHANGED last_processed_checkpoint

FinishMutantKeepsLock(t) ==
    /\ pc' = [pc EXCEPT ![t] = "idle"]
    /\ UNCHANGED mutex
    /\ publish_prior' = {}
    /\ save_prior' = {}
    /\ IF t \in Workers
       THEN /\ last_processed_checkpoint' = checkpoint[t].sequence_number
            /\ checkpoint' = [checkpoint EXCEPT ![t] = NoCheckpoint]
       ELSE UNCHANGED <<last_processed_checkpoint, checkpoint>>

Finish(t) ==
    /\ pc' = [pc EXCEPT ![t] = "idle"]
    /\ mutex' = Free
    /\ publish_prior' = {}
    /\ save_prior' = {}
    /\ IF t \in Workers
       THEN /\ last_processed_checkpoint' = checkpoint[t].sequence_number
            /\ checkpoint' = [checkpoint EXCEPT ![t] = NoCheckpoint]
       ELSE UNCHANGED <<last_processed_checkpoint, checkpoint>>

\* A worker gets the lock and runs process_checkpoint up to its first await:
\* the interactions of every transaction are appended to the log, the log is
\* pruned, and the ranking is recomputed when the checkpoint calls for it.
\* Without a recomputation the call ends here and the guard is dropped.
ProcessCheckpoint(w) ==
    /\ LockGranted(w)
    /\ LET all_interactions ==
               ExtractAll(checkpoint[w].transactions, checkpoint[w].timestamp)
           pruned ==
               prune_old_interactions(dapp_interactions \o all_interactions, clock)
       IN /\ dapp_interactions' = pruned
          /\ IF ShouldUpdate(checkpoint[w].sequence_number, all_interactions)
             THEN /\ \E hash_order \in HashOrders :
                         dapp_rankings' = update_dapp_rankings_24h(
                             pruned, clock, hash_order, registry_order)
                  /\ mutex' = w
                  /\ pc' = [pc EXCEPT ![w] = "cleanup"]
                  /\ result' = "running"
                  /\ publish_prior' = table
                  /\ UNCHANGED <<last_processed_checkpoint, checkpoint, save_prior>>
             ELSE /\ Finish(w)
                  /\ UNCHANGED <<dapp_rankings, result>>
    /\ UNCHANGED <<clock, main_pc, next_checkpoint, table, committed, config_vars>>

\* The ranking job gets the lock, prunes the log and recomputes the ranking.
RankingJob ==
    /\ LockGranted(Timer)
    /\ LET pruned == prune_old_interactions(dapp_interactions, clock)
       IN /\ dapp_interactions' = pruned
          /\ \E hash_order \in HashOrders :
                 dapp_rankings' = update_dapp_rankings_24h(
                     pruned, clock, hash_order, registry_order)
    /\ mutex' = Timer
    /\ pc' = [pc EXCEPT ![Timer] = "cleanup"]
    /\ result' = "running"
    /\ publish_prior' = table
    /\ UNCHANGED <<clock, last_processed_checkpoint, main_pc, pool_vars, table,
                   committed, save_prior, config_vars>>

\* cleanup_unknown_dapps(): the connection or the DELETE fails and
\* update_data_in_database returns the error, or the rows of untracked
\* packages are deleted and save_rankings_from_memory is called.
CleanupStep(t) ==
    /\ pc[t] = "cleanup"
    /\ \/ /\ result' = "error"
          /\ Finish(t)
          /\ UNCHANGED table
       \/ /\ table' = CleanupKeeps(table)
          /\ save_prior' = table'
          /\ pc' = [pc EXCEPT ![t] = "save"]
          /\ UNCHANGED <<result, mutex, last_processed_checkpoint, checkpoint,
                         publish_prior>>
    /\ UNCHANGED <<clock, dapp_interactions, dapp_rankings, main_pc,
                   next_checkpoint, committed, config_vars>>

\* The rows DELETE FROM dapp_rankings leaves.
DeleteAllMutantKeeps(rows) == rows

DeleteAll(rows) == {}

\* save_rankings_from_memory(), up to its DELETE: the connection or the
\* DELETE fails, or every row is deleted; an empty ranking ends the call.
SaveDeleteStep(t) ==
    /\ pc[t] = "save"
    /\ \/ /\ result' = "error"
          /\ Finish(t)
          /\ UNCHANGED table
       \/ /\ table' = DeleteAll(table)
          /\ IF dapp_rankings = <<>>
             THEN /\ result' = "ok"
                  /\ Finish(t)
             ELSE /\ pc' = [pc EXCEPT ![t] = "insert"]
                  /\ UNCHANGED <<result, mutex, last_processed_checkpoint, checkpoint,
                                 publish_prior, save_prior>>
    /\ UNCHANGED <<clock, dapp_interactions, dapp_rankings, main_pc,
                   next_checkpoint, committed, config_vars>>

\* save_rankings_from_memory(), its INSERT of all rows in one statement.
SaveInsertStep(t) ==
    /\ pc[t] = "insert"
    /\ \/ /\ result' = "error"
          /\ UNCHANGED <<table, committed>>
       \/ /\ InsertAllowed(table, RowsOf(dapp_rankings))
          /\ table' = table \cup RowsOf(dapp_rankings)
          /\ committed' = RowsOf(dapp_rankings)
          /\ result' = "ok"
    /\ Finish(t)
    /\ UNCHANGED <<clock, dapp_interactions, dapp_rankings, main_pc,
                   next_checkpoint, config_vars>>

\* ------------------------------------------------- the calculator's driver

\* The interactions the driver's logs are made of: of every registered
\* package and two senders, one day older than the window allows or exactly
\* as old as it allows.
CalcTimes == {MaxTime - Window - 1, MaxTime - Window}

CalcRecords ==
    {[package_id         |-> p,
      sender             |-> u,
      timestamp          |-> ts,
      transaction_digest |-> "tx",
      dapp_name          |-> dapp_names[p][1]] :
        p \in DOMAIN dapp_names, u \in {alice, bob}, ts \in CalcTimes}

\* An indexer holding any log of at most MaxLogLen interactions.
InitCalc ==
    /\ clock = MaxTime
    /\ calc_input = <<>>
    /\ dapp_interactions \in SeqsUpTo(CalcRecords, MaxLogLen)
    /\ dapp_rankings = <<>>
    /\ last_processed_checkpoint = 0
    /\ registry_order \in RegistryOrders
    /\ mutex = Free
    /\ pc = [t \in Tasks |-> "idle"]
    /\ main_pc = "running"
    /\ use_database = TRUE
    /\ checkpoint = [w \in Workers |-> NoCheckpoint]
    /\ next_checkpoint = 0
    /\ result = "none"
    /\ table = {}
    /\ committed = {}
    /\ publish_prior = {}
    /\ save_prior = {}
    /\ stage = "start"
    /\ returned = <<>>

calc_frame == <<clock, last_processed_checkpoint, registry_order, mutex, pc, main_pc,
                use_database, checkpoint, next_checkpoint, result, table, committed,
                publish_prior, save_prior, returned>>

\* prune_old_interactions() on the log as given.
CalcPrune ==
    /\ stage = "start"
    /\ dapp_interactions' = prune_old_interactions(dapp_interactions, clock)
    /\ stage' = "pruned"
    /\ calc_input' = dapp_interactions
    /\ UNCHANGED <<dapp_rankings, calc_frame>>

\* update_dapp_rankings_24h() on the log as given, pruned or extended.
CalcUpdate ==
    /\ stage \in {"start", "pruned", "extended"}
    /\ \E hash_order \in HashOrders :
           dapp_rankings' = update_dapp_rankings_24h(dapp_interactions, clock,
                                                     hash_order, registry_order)
    /\ stage' = IF stage = "extended" THEN "recomputed" ELSE "computed"
    /\ calc_input' = <<>>
    /\ UNCHANGED <<dapp_interactions, calc_frame>>

\* dapp_interactions.extend() with one more interaction, after a ranking
\* was computed.
CalcExtend ==
    /\ stage = "computed"
    /\ Len(dapp_interactions) < MaxLogLen
    /\ \E interaction \in CalcRecords :
           dapp_interactions' = Append(dapp_interactions, interaction)
    /\ stage' = "extended"
    /\ UNCHANGED <<dapp_rankings, calc_input, calc_frame>>

\* ------------------------------------------------------ the batch driver

\* The events a delivered checkpoint is made of: of registered packages, of
\* a package that is not registered, and one whose sender prints as "".
EventMenu ==
    {[package_id |-> CetusA,    sender |-> alice],
     [package_id |-> CetusB,    sender |-> alice],
     [package_id |-> Turbos,    sender |-> bob],
     [package_id |-> Untracked, sender |-> alice],
     [package_id |-> Turbos,    sender |-> ""]}

\* The sequences of at most n different elements of S.
InjSeqs(S, n) ==
    {s \in SeqsUpTo(S, n) : \A i, j \in 1..Len(s) : s[i] = s[j] => i = j}

\* The events of a busy checkpoint: both senders with every registered
\* package.
BusyEvents ==
    <<[package_id |-> CetusA, sender |-> alice],
      [package_id |-> CetusA, sender |-> bob],
      [package_id |-> CetusB, sender |-> alice],
      [package_id |-> CetusB, sender |-> bob],
      [package_id |-> Turbos, sender |-> alice],
      [package_id |-> Turbos, sender |-> bob]>>

\* Two transactions with five and with six of these events.
BusyBatches ==
    {<<[digest |-> "tx1", events |-> SubSeq(BusyEvents, 1, 3)],
       [digest |-> "tx2", events |-> SubSeq(BusyEvents, 4, n)]>> : n \in {5, 6}}

\* The transaction lists of a checkpoint: none, at most MaxEvents different
\* events split over two transactions, or a busy checkpoint.
BatchTransactions ==
    {<<>>} \cup BusyBatches \cup
    UNION {{<<[digest |-> "tx1", events |-> SubSeq(es, 1, k)],
              [digest |-> "tx2", events |-> SubSeq(es, k + 1, Len(es))]>> :
               k \in 0..Len(es)} : es \in InjSeqs(EventMenu, MaxEvents)}

\* The logs the driver starts from: empty, or holding an interaction of an
\* earlier transaction.
LogMenu ==
    {<<>>,
     <<[package_id         |-> CetusA,
        sender             |-> bob,
        timestamp          |-> MaxTime - Window,
        transaction_digest |-> "tx0",
        dapp_name          |-> "Cetus AMM"]>>}

\* The sequence numbers of the driver's checkpoint: one that makes
\* process_checkpoint recompute the ranking and one that does not.
BatchNumbers == {10, 11}

InitBatch ==
    /\ clock = MaxTime
    /\ dapp_interactions \in LogMenu
    /\ dapp_rankings = <<>>
    /\ last_processed_checkpoint = 0
    /\ registry_order \in RegistryOrders
    /\ mutex = Free
    /\ pc = [t \in Tasks |-> "idle"]
    /\ main_pc = "running"
    /\ use_database = TRUE
    /\ checkpoint = [w \in Workers |-> NoCheckpoint]
    /\ next_checkpoint = 0
    /\ result = "none"
    /\ table = {}
    /\ committed = {}
    /\ publish_prior = {}
    /\ save_prior = {}
    /\ stage = "ready"
    /\ calc_input = <<>>
    /\ returned = <<>>

batch_frame == <<clock, registry_order, mutex, pc, main_pc, use_database,
                 next_checkpoint, table, committed, publish_prior,
                 save_prior, calc_input>>

\* A checkpoint is handed to the worker.
BatchDeliver ==
    /\ stage = "ready"
    /\ \E transactions \in BatchTransactions, timestamp \in CalcTimes,
          sequence_number \in BatchNumbers :
           checkpoint' = [checkpoint EXCEPT !["worker1"] =
               [sequence_number |-> sequence_number,
                timestamp       |-> timestamp,
                transactions    |-> transactions]]
    /\ stage' = "delivered"
    /\ UNCHANGED <<dapp_interactions, dapp_rankings, last_processed_checkpoint,
                   result, returned, batch_frame>>

\* process_checkpoint() on the checkpoint handed over, as far as the
\* indexer's memory goes: extract and append, prune, recompute when the
\* checkpoint calls for it and call update_data_in_database, which succeeds
\* or fails, store the checkpoint number, return the interactions found.
BatchProcess ==
    /\ stage \in {"delivered", "redelivered"}
    /\ LET data == checkpoint["worker1"]
           all_interactions == ExtractAll(data.transactions, data.timestamp)
           pruned ==
               prune_old_interactions(dapp_interactions \o all_interactions, clock)
       IN /\ dapp_interactions' = pruned
          /\ IF ShouldUpdate(data.sequence_number, all_interactions)
             THEN /\ \E hash_order \in HashOrders :
                         dapp_rankings' = update_dapp_rankings_24h(
                             pruned, clock, hash_order, registry_order)
                  /\ result' \in {"ok", "error"}
             ELSE UNCHANGED <<dapp_rankings, result>>
          /\ last_processed_checkpoint' = data.sequence_number
          /\ returned' = all_interactions
    /\ stage' = IF stage = "delivered" THEN "processed" ELSE "reprocessed"
    /\ UNCHANGED <<checkpoint, batch_frame>>

\* The ingestion layer delivers the checkpoint just processed once more.
BatchRedeliver ==
    /\ stage = "processed"
    /\ stage' = "redelivered"
    /\ UNCHANGED <<dapp_interactions, dapp_rankings, last_processed_checkpoint,
                   checkpoint, result, returned, batch_frame>>

\* ------------------------------------------------------ the quiet period

\* An interaction of alice with a package at a time.
QuietRecord(package_id, timestamp) ==
    [package_id         |-> package_id,
     sender             |-> alice,
     timestamp          |-> timestamp,
     transaction_digest |-> "tx",
     dapp_name          |-> dapp_names[package_id][1]]

\* The logs the indexer may hold when checkpoints stop arriving.
QuietLogs ==
    {<<QuietRecord(CetusA, 0)>>,
     <<QuietRecord(CetusA, 0), QuietRecord(Turbos, 1)>>,
     <<QuietRecord(Turbos, 1), QuietRecord(CetusB, 1)>>}

\* The indexer is running with the ranking job, holds a log, and no
\* checkpoint arrives any more.
InitQuiet ==
    /\ clock = 1
    /\ dapp_interactions \in QuietLogs
    /\ dapp_rankings = <<>>
    /\ last_processed_checkpoint = 0
    /\ registry_order = <<CetusA, CetusB, Turbos>>
    /\ mutex = Free
    /\ pc = [t \in Tasks |-> "idle"]
    /\ main_pc = "running"
    /\ use_database = TRUE
    /\ checkpoint = [w \in Workers |-> NoCheckpoint]
    /\ next_checkpoint = 0
    /\ result = "none"
    /\ table = {}
    /\ committed = {}
    /\ publish_prior = {}
    /\ save_prior = {}
    /\ stage = "system"
    /\ calc_input = <<>>
    /\ returned = <<>>

\* ----------------------------------------------------------- specifications

Next ==
    \/ StartWithoutDatabase
    \/ StartReset
    \/ Tick
    \/ IntervalTick
    \/ RankingJob
    \/ \E w \in Workers : Deliver(w)
    \/ \E w \in Workers : ProcessCheckpoint(w)
    \/ \E t \in Tasks : CleanupStep(t)
    \/ \E t \in Tasks : SaveDeleteStep(t)
    \/ \E t \in Tasks : SaveInsertStep(t)

Spec == Init /\ [][Next]_vars

NextCalc ==
    \/ CalcPrune
    \/ CalcUpdate
    \/ CalcExtend

SpecCalc == InitCalc /\ [][NextCalc]_vars

NextBatch ==
    \/ BatchDeliver
    \/ BatchProcess
    \/ BatchRedeliver

SpecBatch == InitBatch /\ [][NextBatch]_vars

NextQuiet ==
    \/ Tick
    \/ IntervalTick
    \/ RankingJob
    \/ \E t \in Tasks : CleanupStep(t)
    \/ \E t \in Tasks : SaveDeleteStep(t)
    \/ \E t \in Tasks : SaveInsertStep(t)

\* The interval fires every 120 seconds, the lock is granted to a task that
\* waits for a free lock, and every database call returns.
QuietFairness ==
    /\ WF_vars(IntervalTick)
    /\ WF_vars(RankingJob)
    /\ WF_vars(\E t \in Tasks : CleanupStep(t))
    /\ WF_vars(\E t \in Tasks : SaveDeleteStep(t))
    /\ WF_vars(\E t \in Tasks : SaveInsertStep(t))

SpecQuiet == InitQuiet /\ [][NextQuiet]_vars /\ QuietFairness


\* ------------------------------------------------ properties: the lock

\* C1: at most one task is inside a critical section on the log and the
\* ranking at any time, be it a worker's process_checkpoint or the ranking
\* job's prune, update and publish; and the task inside holds the mutex.
C1_MutualExclusion ==
    /\ \A t1, t2 \in Tasks : InCritical(t1) /\ InCritical(t2) => t1 = t2
    /\ \A t \in Tasks : InCritical(t) => mutex = t

\* A worker is inside its critical section while the other worker and the
\* ranking job both wait for the lock.
C1_Witness ==
    \E w \in Workers :
        /\ InCritical(w)
        /\ pc[Timer] = "wait"
        /\ \E v \in Workers \ {w} : pc[v] = "wait"

\* ------------------------------------------- properties: the ranking table

\* C2: the rows of the table all belong to one ranking list that was passed
\* to save_rankings_from_memory (the last one whose INSERT succeeded, or the
\* list the table held when the process started).
C2_SingleSnapshot == table \subseteq committed

\* A publish is between its DELETE and its INSERT, replacing a snapshot of
\* other rows, and the table was filled by a publish before.
C2_Witness ==
    \E t \in Tasks :
        /\ pc[t] = "insert"
        /\ save_prior # {}
        /\ save_prior # RowsOf(dapp_rankings)
        /\ next_checkpoint > 0

\* C3: while save_rankings_from_memory replaces snapshot P by list R, the
\* table holds exactly P or exactly R.
C3_ReplaceInOneStep ==
    \A t \in Tasks :
        pc[t] \in {"save", "insert"} =>
            \/ table = save_prior
            \/ table = RowsOf(dapp_rankings)

\* C4: when update_data_in_database ends in an error, the table holds what
\* it held when that call began.
C4_FailureKeepsSnapshot ==
    [][(result = "running" /\ result' = "error") => table' = publish_prior]_vars

\* ------------------------------------------------ properties: the log

\* The interactions of a log that are inside the window at a clock reading.
InWindow(interactions, system_time) ==
    SelectSeq(interactions, LAMBDA r : r.timestamp >= system_time - Window)

\* C5: prune_old_interactions removes exactly the interactions with
\* timestamp < now - window and keeps the others, the one with timestamp
\* = now - window among them, in their order.
C5_EvictExactly ==
    stage = "pruned" => dapp_interactions = InWindow(calc_input, clock)

\* A prune removed an interaction and kept one on the boundary.
C5_Witness ==
    /\ stage = "pruned"
    /\ Len(dapp_interactions) < Len(calc_input)
    /\ \E i \in 1..Len(dapp_interactions) :
           dapp_interactions[i].timestamp = clock - Window


\* -------------------------------------------- properties: the calculator

\* A ranking list was computed from the log as it is.
Computed == stage \in {"computed", "recomputed"}

\* The senders of the interactions of a log that are inside the window and
\* whose package has the display name.
SendersOf(interactions, system_time, dapp_name) ==
    {interactions[i].sender :
        i \in {j \in 1..Len(interactions) :
                  /\ interactions[j].timestamp >= system_time - Window
                  /\ dapp_names[interactions[j].package_id][1] = dapp_name}}

\* The count a ranking list gives a display name, 0 when it has no entry.
ScoreOf(rankings, dapp_name) ==
    IF \E i \in 1..Len(rankings) : rankings[i].dapp_name = dapp_name
    THEN LET i == CHOOSE j \in 1..Len(rankings) : rankings[j].dapp_name = dapp_name
         IN rankings[i].dau_24h
    ELSE 0

\* The count of every entry is the number of distinct senders of its name.
ScoresCountSenders ==
    Computed =>
        \A i \in 1..Len(dapp_rankings) :
            dapp_rankings[i].dau_24h =
                Cardinality(SendersOf(dapp_interactions, clock,
                                      dapp_rankings[i].dapp_name))

\* Recomputing after one interaction inside the window was added changes the
\* count of its display name by 0 when its sender was counted, by 1 when not.
AddedInteractionCounts ==
    (stage = "extended" /\ stage' = "recomputed") =>
        LET added     == dapp_interactions[Len(dapp_interactions)]
            before    == SubSeq(dapp_interactions, 1, Len(dapp_interactions) - 1)
            dapp_name == dapp_names[added.package_id][1]
            counted   == added.sender \in SendersOf(before, clock, dapp_name)
        IN added.timestamp >= clock - Window =>
               ScoreOf(dapp_rankings', dapp_name) =
                   ScoreOf(dapp_rankings, dapp_name) + (IF counted THEN 0 ELSE 1)

\* C6: the count of a display name is the number of distinct senders among
\* the interactions inside the window that resolve to it; one more
\* interaction of a counted sender leaves it, one of a new sender adds 1.
C6_DistinctSenders == []ScoresCountSenders /\ [][AddedInteractionCounts]_vars

\* A name has count 2 after an interaction of a second sender was added to a
\* log where the first sender appears twice.
C6_Witness ==
    /\ stage = "recomputed"
    /\ \E i \in 1..Len(dapp_rankings) : dapp_rankings[i].dau_24h = 2
    /\ \E i, j \in 1..(Len(dapp_interactions) - 1) :
           /\ i < j
           /\ dapp_interactions[i].sender = dapp_interactions[j].sender
           /\ GroupKey(dapp_interactions[i]) = GroupKey(dapp_interactions[j])
           /\ dapp_interactions[i].timestamp >= clock - Window
           /\ dapp_interactions[j].timestamp >= clock - Window

\* The display names that have an interaction inside the window.
NamesInWindow ==
    {dapp_names[dapp_interactions[i].package_id][1] :
        i \in {j \in 1..Len(dapp_interactions) :
                  dapp_interactions[j].timestamp >= clock - Window}}

\* C7: a computed ranking has exactly one entry per display name that has
\* an interaction inside the window; the packages of one name share an
\* entry, and a sender using several of them is counted once.
C7_OneEntryPerName ==
    Computed =>
        /\ {dapp_rankings[i].dapp_name : i \in 1..Len(dapp_rankings)} = NamesInWindow
        /\ \A i, j \in 1..Len(dapp_rankings) :
               dapp_rankings[i].dapp_name = dapp_rankings[j].dapp_name => i = j
        /\ \A i \in 1..Len(dapp_rankings) :
               dapp_rankings[i].dau_24h =
                   Cardinality({r.sender :
                       r \in {x \in Range(InWindow(dapp_interactions, clock)) :
                                 dapp_names[x.package_id][1] = dapp_rankings[i].dapp_name}})

\* One sender used both Cetus AMM packages inside the window and the ranking
\* has the one Cetus AMM entry, of count 1.
C7_Witness ==
    /\ Computed
    /\ \E i, j \in 1..Len(dapp_interactions) :
           /\ dapp_interactions[i].package_id = CetusA
           /\ dapp_interactions[j].package_id = CetusB
           /\ dapp_interactions[i].sender = dapp_interactions[j].sender
           /\ dapp_interactions[i].timestamp >= clock - Window
           /\ dapp_interactions[j].timestamp >= clock - Window
    /\ \E i \in 1..Len(dapp_rankings) :
           dapp_rankings[i].dapp_name = "Cetus AMM" /\ dapp_rankings[i].dau_24h = 1

\* C8: in a computed ranking an entry's count is at least the next one's.
C8_SortedDescending ==
    Computed =>
        \A i \in 1..(Len(dapp_rankings) - 1) :
            dapp_rankings[i].dau_24h >= dapp_rankings[i + 1].dau_24h

\* A ranking of two entries with counts 2 and 1.
C8_Witness ==
    /\ Computed
    /\ Len(dapp_rankings) = 2
    /\ dapp_rankings[1].dau_24h = 2
    /\ dapp_rankings[2].dau_24h = 1

\* C9: update_dapp_rankings_24h on the same log at the same clock reading
\* gives the same list every time: the ranking stored is the one every
\* iteration order of the counting map gives.
C9_Deterministic ==
    Computed =>
        \A hash_order \in HashOrders :
            update_dapp_rankings_24h(dapp_interactions, clock, hash_order,
                                     registry_order) = dapp_rankings

\* C10: the ranks of a computed ranking of n entries are 1..n in list order.
C10_DenseRanks ==
    Computed => \A i \in 1..Len(dapp_rankings) : dapp_rankings[i].rank = i

\* A ranking of two entries of equal count, ranked 1 and 2.
C10_Witness ==
    /\ Computed
    /\ Len(dapp_rankings) = 2
    /\ dapp_rankings[1].dau_24h = dapp_rankings[2].dau_24h
    /\ dapp_rankings[1].rank = 1
    /\ dapp_rankings[2].rank = 2


\* ------------------------------------------- properties: entries and scores

\* C11: no entry of the ranking has count 0, in memory or in the table, and
\* while a ranking just computed is being published every entry's display
\* name has an interaction in the log it was computed from: a registered
\* application without one has no entry.
C11_NoZeroScore ==
    /\ \A i \in 1..Len(dapp_rankings) : dapp_rankings[i].dau_24h >= 1
    /\ \A row \in table : row.dau_1h >= 1
    /\ \A t \in Tasks :
           InCritical(t) =>
               {dapp_rankings[i].dapp_name : i \in 1..Len(dapp_rankings)}
                   \subseteq {dapp_names[dapp_interactions[i].package_id][1] :
                                  i \in 1..Len(dapp_interactions)}

\* A ranking was published that has an entry for Cetus AMM and none for
\* Turbos, which has no interaction in the log.
C11_Witness ==
    /\ dapp_rankings # <<>>
    /\ table = RowsOf(dapp_rankings)
    /\ result = "ok"
    /\ \A i \in 1..Len(dapp_interactions) :
           dapp_interactions[i].package_id # Turbos
    /\ \A row \in table : row.dapp_name # "Turbos"


\* ------------------------------------------------ properties: the extractor

\* The checkpoint the batch driver's worker was handed.
Delivered == checkpoint["worker1"]

\* process_checkpoint has returned.
Processed == stage \in {"processed", "reprocessed"}

\* The events of a checkpoint's transactions, in order, each with the digest
\* of its transaction.
RECURSIVE EventsOf(_)
EventsOf(transactions) ==
    IF transactions = <<>> THEN <<>>
    ELSE [i \in 1..Len(Head(transactions).events) |->
             [package_id |-> Head(transactions).events[i].package_id,
              sender     |-> Head(transactions).events[i].sender,
              digest     |-> Head(transactions).digest]]
         \o EventsOf(Tail(transactions))

\* A checkpoint's transactions without the events of unregistered packages.
WithoutUnregistered(transactions) ==
    [i \in 1..Len(transactions) |->
        [transactions[i] EXCEPT
            !.events = SelectSeq(@, LAMBDA e : e.package_id \in DOMAIN dapp_names)]]

\* process_checkpoint returns and leaves the log as it would for the
\* checkpoint without its events of unregistered packages.
UnregisteredIgnored ==
    (stage \in {"delivered", "redelivered"} /\ stage' \in {"processed", "reprocessed"}) =>
        LET kept == ExtractAll(WithoutUnregistered(Delivered.transactions),
                               Delivered.timestamp)
        IN /\ \A i \in 1..Len(returned') :
                  returned'[i].package_id \in DOMAIN dapp_names
           /\ returned' = kept
           /\ dapp_interactions' =
                  prune_old_interactions(dapp_interactions \o kept, clock)
           /\ last_processed_checkpoint' = Delivered.sequence_number

\* C12: the extractor yields no interaction for an event of a package that
\* is not a registry key; such events change neither what is returned nor
\* the log, and process_checkpoint runs to its end whatever the events are.
C12_UnregisteredIgnored == [][UnregisteredIgnored]_vars

\* A checkpoint with an event of an unregistered package between two of
\* registered ones was processed and the two were returned.
C12_Witness ==
    /\ Processed
    /\ Len(returned) = 2
    /\ \E i \in 1..Len(EventsOf(Delivered.transactions)) :
           /\ 1 < i
           /\ i < Len(EventsOf(Delivered.transactions))
           /\ EventsOf(Delivered.transactions)[i].package_id = Untracked

\* The interactions a checkpoint calls for: one per event of a registered
\* package with a sender, in order.
ExpectedInteractions(data) ==
    LET events == SelectSeq(EventsOf(data.transactions),
                            LAMBDA e : /\ e.package_id \in DOMAIN dapp_names
                                       /\ e.sender # "")
    IN [i \in 1..Len(events) |->
           [package_id         |-> events[i].package_id,
            sender             |-> events[i].sender,
            timestamp          |-> data.timestamp,
            transaction_digest |-> events[i].digest,
            dapp_name          |-> dapp_names[events[i].package_id][1]]]

\* C13: process_checkpoint returns exactly one interaction per event of a
\* registered package whose sender is not empty, in event order, with the
\* event's package and sender, the checkpoint's timestamp, the digest of the
\* transaction and the registry's display name; nothing else enters.
C13_OnePerEvent == Processed => returned = ExpectedInteractions(Delivered)

\* Interactions of both transactions were returned for a checkpoint that
\* also has an event without a sender.
C13_Witness ==
    /\ Processed
    /\ \E i, j \in 1..Len(returned) :
           /\ returned[i].transaction_digest = "tx1"
           /\ returned[j].transaction_digest = "tx2"
    /\ \E i \in 1..Len(EventsOf(Delivered.transactions)) :
           EventsOf(Delivered.transactions)[i].sender = ""

\* ----------------------------------------------------- properties: the log

\* C14: every interaction in the log is of a registered package and has a
\* sender.
C14_LogWellFormed ==
    \A i \in 1..Len(dapp_interactions) :
        /\ dapp_interactions[i].package_id \in DOMAIN dapp_names
        /\ dapp_interactions[i].sender # ""

\* The log grew by a checkpoint that also had an event of an unregistered
\* package and one without a sender.
C14_Witness ==
    /\ Processed
    /\ returned # <<>>
    /\ Len(dapp_interactions) >= Len(returned)
    /\ Delivered.timestamp >= clock - Window
    /\ \E i, j \in 1..Len(EventsOf(Delivered.transactions)) :
           /\ EventsOf(Delivered.transactions)[i].package_id = Untracked
           /\ EventsOf(Delivered.transactions)[j].sender = ""

\* C15: the log holds one interaction per event, also after a checkpoint
\* was delivered again: no two entries of the log are the same interaction
\* (the events of a transaction differ and digests are not reused).
C15_OncePerEvent ==
    \A i, j \in 1..Len(dapp_interactions) :
        dapp_interactions[i] = dapp_interactions[j] => i = j

\* The scores of the ranking a log gives at the clock reading.
ScoresOf(interactions) ==
    LET rankings == update_dapp_rankings_24h(
                        interactions, clock,
                        CHOOSE hash_order \in HashOrders : TRUE, registry_order)
    IN [dapp_name \in DappNameSet |-> ScoreOf(rankings, dapp_name)]

\* Processing a checkpoint a second time leaves every score.
RedeliveryKeepsScores ==
    (stage = "redelivered" /\ stage' = "reprocessed") =>
        /\ ScoresOf(dapp_interactions') = ScoresOf(dapp_interactions)
        /\ \A dapp_name \in DappNameSet :
               ScoreOf(dapp_rankings', dapp_name) = ScoreOf(dapp_rankings, dapp_name)

\* C16: the ranking after a checkpoint was processed twice gives every
\* application the score it has after the checkpoint was processed once, at
\* the same clock reading.
C16_RedeliveryIdempotent == [][RedeliveryKeepsScores]_vars

\* A checkpoint inside the window with two interactions was processed twice
\* and the ranking recomputed: the log holds both copies.
C16_Witness ==
    /\ stage = "reprocessed"
    /\ Delivered.sequence_number = 10
    /\ Len(returned) = 2
    /\ Len(dapp_interactions) = 5
    /\ Len(dapp_rankings) = 2


\* ------------------------------------------- properties: order and schedule

\* C17: checkpoints are applied in the order they were delivered: while a
\* worker still waits for the lock with its checkpoint, no checkpoint
\* delivered later is being processed or has been processed.
C17_DeliveryOrder ==
    \A w \in Workers :
        pc[w] = "wait" =>
            /\ last_processed_checkpoint <= checkpoint[w].sequence_number
            /\ \A v \in Workers :
                   InCritical(v) =>
                       checkpoint[v].sequence_number < checkpoint[w].sequence_number


\* What the ranking job does when it gets the lock, and that the log and
\* the ranking stay as they are while it publishes.
TimerTickDoesAll ==
    /\ (pc[Timer] = "wait" /\ pc'[Timer] # "wait") =>
           /\ mutex = Free
           /\ mutex' = Timer
           /\ dapp_interactions' = InWindow(dapp_interactions, clock)
           /\ \E hash_order \in HashOrders :
                  dapp_rankings' = update_dapp_rankings_24h(
                      dapp_interactions', clock, hash_order, registry_order)
           /\ pc'[Timer] = "cleanup"
           /\ result' = "running"
    /\ InCritical(Timer) =>
           /\ UNCHANGED <<dapp_interactions, dapp_rankings>>
           /\ mutex' \in {Timer, Free}
           /\ mutex' = Free <=> pc'[Timer] = "idle"

\* C18: every tick of the ranking job prunes the log, recomputes the
\* ranking from the pruned log and calls update_data_in_database, in that
\* order and holding the lock throughout, whatever the log holds and whether
\* or not a checkpoint arrived.
C18_TickDoesAll ==
    /\ [](InCritical(Timer) => mutex = Timer)
    /\ [][TimerTickDoesAll]_vars

\* The ranking job is publishing the ranking of an empty log: no checkpoint
\* was ever delivered.
C18_Witness ==
    /\ pc[Timer] = "cleanup"
    /\ next_checkpoint = 0
    /\ dapp_interactions = <<>>
    /\ clock > 0


\* ------------------------------------------------- properties: quiet periods

\* The log holds an interaction older than the window allows.
StaleInLog ==
    \E i \in 1..Len(dapp_interactions) :
        dapp_interactions[i].timestamp < clock - Window

\* The ranking gives every display name the number of senders the log has
\* for it inside the window.
ScoresCurrent ==
    \A dapp_name \in DappNameSet :
        ScoreOf(dapp_rankings, dapp_name) =
            Cardinality(SendersOf(dapp_interactions, clock, dapp_name))

\* C19: with the ranking job running and no checkpoint arriving, an
\* interaction older than the window is eventually evicted and no longer
\* counted; when all are, the log and the ranking are empty, and so is the
\* table once a publish has succeeded.
C19_EventuallyEvicted ==
    /\ StaleInLog ~> (~StaleInLog /\ ScoresCurrent)
    /\ (StaleInLog /\ InWindow(dapp_interactions, clock) = <<>>)
           ~> (dapp_interactions = <<>> /\ dapp_rankings = <<>>)
    /\ []((pc[Timer] = "idle" /\ result = "ok") => table = RowsOf(dapp_rankings))

\* A ranking was published, all interactions aged out, and the log, the
\* ranking and the table are empty after a publish that succeeded.
C19_Witness ==
    /\ dapp_interactions = <<>>
    /\ dapp_rankings = <<>>
    /\ table = {}
    /\ committed # {}
    /\ result = "ok"
    /\ pc[Timer] = "idle"


\* ------------------------------------------ properties: persistence failures

\* What a step does in which update_data_in_database fails: the log and the
\* ranking stay, the task leaves its critical section and drops the lock, a
\* worker has stored its checkpoint's number and returned, nothing exits.
FailureIsNotFatal ==
    (result = "running" /\ result' = "error") =>
        \E t \in Tasks :
            /\ InCritical(t)
            /\ pc'[t] = "idle"
            /\ \A u \in Tasks \ {t} : pc'[u] = pc[u]
            /\ mutex' = Free
            /\ main_pc' = main_pc
            /\ UNCHANGED <<dapp_interactions, dapp_rankings>>
            /\ t \in Workers =>
                   /\ last_processed_checkpoint' = checkpoint[t].sequence_number
                   /\ checkpoint'[t] = NoCheckpoint
            /\ t = Timer => UNCHANGED last_processed_checkpoint

\* After a failure the next recomputation publishes again.
FailureIsRetried ==
    (result = "error" /\ dapp_rankings' # dapp_rankings) =>
        /\ result' = "running"
        /\ \E t \in Tasks : pc'[t] = "cleanup"

\* C20: a failed publish, of a worker or of the ranking job, leaves the log
\* and the freshly computed ranking as they are, process_checkpoint still
\* stores the checkpoint number and the worker returns, the ranking job goes
\* on, and the next cycle calls update_data_in_database again.
C20_FailureNotFatal ==
    /\ [][FailureIsNotFatal]_vars
    /\ [][FailureIsRetried]_vars
    /\ [][(result = "error" /\ pc[Timer] = "wait" /\ pc'[Timer] # "wait")
             => (pc'[Timer] = "cleanup" /\ result' = "running")]_vars

\* A worker's INSERT failed: the table is empty, the ranking and the log are
\* in memory, the lock is free, and the ranking job waits for it.
C20_Witness ==
    /\ result = "error"
    /\ table = {}
    /\ dapp_rankings # <<>>
    /\ dapp_interactions # <<>>
    /\ mutex = Free
    /\ pc[Timer] = "wait"
    /\ \A w \in Workers : pc[w] = "idle"

\* ------------------------------------------------------ the table's driver

\* The rows the table may hold before a publish: of a registered package, of
\* a package no list knows, of the Sui framework (which the list of
\* cleanup_unknown_dapps names and the registry does not), and of a
\* registered package under the name 'Unknown DApp'.
TableRows ==
    { [rank_position |-> 1, package_id |-> Turbos, dapp_name |-> "Turbos",
       dau_1h |-> 2, dapp_type |-> "DEX"],
      [rank_position |-> 2, package_id |-> Untracked, dapp_name |-> "Retired",
       dau_1h |-> 1, dapp_type |-> "DEX"],
      [rank_position |-> 2, package_id |-> SuiFramework, dapp_name |-> "Sui",
       dau_1h |-> 1, dapp_type |-> "Infra"],
      [rank_position |-> 3, package_id |-> CetusA, dapp_name |-> "Unknown DApp",
       dau_1h |-> 1, dapp_type |-> "Unknown"] }

\* The logs the indexer may hold when the ranking job runs.
TableLogs == QuietLogs \cup {<<>>}

\* The indexer is running with the ranking job, holds a log, and the table
\* holds any of the rows above.
InitTable ==
    /\ clock = 1
    /\ dapp_interactions \in TableLogs
    /\ dapp_rankings = <<>>
    /\ last_processed_checkpoint = 0
    /\ registry_order = <<CetusA, CetusB, Turbos>>
    /\ mutex = Free
    /\ pc = [t \in Tasks |-> "idle"]
    /\ main_pc = "running"
    /\ use_database = TRUE
    /\ checkpoint = [w \in Workers |-> NoCheckpoint]
    /\ next_checkpoint = 0
    /\ result = "none"
    /\ table \in SUBSET TableRows
    /\ committed = table
    /\ publish_prior = {}
    /\ save_prior = {}
    /\ stage = "table"
    /\ calc_input = <<>>
    /\ returned = <<>>

\* SELECT ... ORDER BY rank_position ASC: the lists of records the query may
\* return, rows of one rank_position in any order.
get_dapp_rankings(rows) ==
    {records \in Perms(rows) :
        \A i, j \in 1..Len(records) :
            i < j => records[i].rank_position <= records[j].rank_position}

\* The DAppRanking get_data_from_database makes of a record.
DAppRankingMutantSwapsNumbers(record) ==
    [rank       |-> record.dau_1h,
     package_id |-> record.package_id,
     dapp_name  |-> record.dapp_name,
     dau_24h    |-> record.rank_position,
     dapp_type  |-> record.dapp_type]

DAppRanking(record) ==
    [rank       |-> record.rank_position,
     package_id |-> record.package_id,
     dapp_name  |-> record.dapp_name,
     dau_24h    |-> record.dau_1h,
     dapp_type  |-> record.dapp_type]

\* get_data_from_database() by a caller that holds the indexer: the
\* connection or the query fails and the ranking stays, or the ranking
\* becomes the records read.
TableLoad ==
    /\ stage \in {"table", "loaded"}
    /\ mutex = Free
    /\ \/ UNCHANGED <<dapp_rankings, stage>>
       \/ /\ \E records \in get_dapp_rankings(table) :
                 dapp_rankings' =
                     [i \in 1..Len(records) |-> DAppRanking(records[i])]
          /\ stage' = "loaded"
    /\ UNCHANGED <<clock, dapp_interactions, last_processed_checkpoint,
                   registry_order, mutex, pc, main_pc, use_database, checkpoint,
                   next_checkpoint, result, table, committed, publish_prior,
                   save_prior, calc_input, returned>>

NextTable ==
    \/ IntervalTick
    \/ RankingJob
    \/ TableLoad
    \/ \E t \in Tasks : CleanupStep(t)
    \/ \E t \in Tasks : SaveDeleteStep(t)
    \/ \E t \in Tasks : SaveInsertStep(t)

SpecTable == InitTable /\ [][NextTable]_vars

\* ---------------------------------------------- properties: the cleanup

\* C21: after a cleanup that succeeded, every row left in the table has a
\* package_id that is a key of the registry, and every row whose package_id
\* is a key of the registry is still there.
C21_CleanupByRegistry ==
    [][\A t \in Tasks :
          (pc[t] = "cleanup" /\ pc'[t] = "save")
              => /\ \A row \in table' : row.package_id \in DOMAIN dapp_names
                 /\ \A row \in table :
                        row.package_id \in DOMAIN dapp_names => row \in table']_vars

\* ------------------------------------------ properties: publish and load

BagOf(interactions) ==
    [x \in Range(interactions) |->
        Cardinality({i \in 1..Len(interactions) : interactions[i] = x})]

\* Eviction at the driver's clock.
Evict(interactions) == prune_old_interactions(interactions, clock)

\* The driver's input log cut in three: a log and two lists of records
\* inserted into it.
Cuts ==
    {[log    |-> SubSeq(calc_input, 1, at[1]),
      first  |-> SubSeq(calc_input, at[1] + 1, at[2]),
      second |-> SubSeq(calc_input, at[2] + 1, Len(calc_input))] :
        at \in {p \in (0..Len(calc_input)) \X (0..Len(calc_input)) :
                   p[1] <= p[2]}}

\* C22: at one clock reading, evicting the evicted log changes nothing, and
\* however a log and two lists of records inserted into it are put together,
\* in either order, with an eviction before, between or after the
\* insertions, a last eviction retains the same records.
C22_EvictIdempotentCommutes ==
    stage = "pruned" =>
        /\ Evict(dapp_interactions) = dapp_interactions
        /\ \A c \in Cuts :
               /\ Evict(c.log \o c.first \o c.second) = dapp_interactions
               /\ Evict(Evict(c.log) \o c.first \o c.second) = dapp_interactions
               /\ Evict(Evict(c.log \o c.first) \o c.second) = dapp_interactions
               /\ Evict(Evict(Evict(c.log) \o c.first) \o c.second)
                      = dapp_interactions
               /\ BagOf(Evict(c.log \o c.second \o c.first))
                      = BagOf(dapp_interactions)
               /\ BagOf(Evict(Evict(c.log \o c.second) \o c.first))
                      = BagOf(dapp_interactions)
               /\ BagOf(Evict(Evict(Evict(c.log) \o c.second) \o c.first))
                      = BagOf(dapp_interactions)

\* A log of three records was evicted: some were dropped and some stayed.
C22_Witness ==
    /\ stage = "pruned"
    /\ Len(calc_input) >= 3
    /\ Len(dapp_interactions) > 0
    /\ Len(dapp_interactions) < Len(calc_input)


\* ------------------------------------- properties: order within a batch

\* The orderings of a sequence.
Reordered(s) == {[i \in 1..Len(s) |-> s[p[i]]] : p \in Perms(1..Len(s))}

\* The checkpoints made of the same transactions and events in any order.
PermutedBatches(transactions) ==
    LET n == Len(transactions)
        orders == UNION {Reordered(transactions[i].events) : i \in 1..n}
        picks  == {f \in [1..n -> orders] :
                      \A i \in 1..n : f[i] \in Reordered(transactions[i].events)}
    IN UNION {Reordered([i \in 1..n |->
                            [digest |-> transactions[i].digest,
                             events |-> f[i]]]) : f \in picks}

\* C23: the ranking process_checkpoint computes for a checkpoint is the
\* list it computes, from the same log, for the checkpoint with its events
\* in any other order: the same entries, scores, ranks and order.
C23_EventOrderIrrelevant ==
    [][(stage = "delivered" /\ stage' = "processed"
        /\ ShouldUpdate(Delivered.sequence_number, returned'))
          => \A transactions \in PermutedBatches(Delivered.transactions) :
                 \A hash_order \in HashOrders :
                     update_dapp_rankings_24h(
                         prune_old_interactions(
                             dapp_interactions
                                 \o ExtractAll(transactions, Delivered.timestamp),
                             clock),
                         clock, hash_order, registry_order) = dapp_rankings']_vars


\* ------------------------------- properties: what process_checkpoint returns

\* C25: process_checkpoint returns the interactions of the checkpoint it was
\* given, in transaction and event order, and none of an earlier checkpoint
\* or an earlier delivery, whether the call evicted them from the log or
\* not, recomputed the ranking or not, and published it or failed to.
C25_ReturnsOwnInteractions ==
    [][(stage \in {"delivered", "redelivered"} /\ stage' \in {"processed", "reprocessed"})
          => /\ returned' = ExpectedInteractions(Delivered)
             /\ \A i \in 1..Len(returned') :
                    /\ returned'[i].timestamp = Delivered.timestamp
                    /\ returned'[i].transaction_digest \in
                           {Delivered.transactions[k].digest :
                               k \in 1..Len(Delivered.transactions)}
             /\ stage = "redelivered" => returned' = returned]_vars

\* A checkpoint older than the window was processed on a log that held an
\* earlier interaction: its two interactions were returned and evicted in
\* the same call, the ranking was recomputed and the publish failed.
C25_Witness ==
    /\ stage = "processed"
    /\ Delivered.sequence_number = 10
    /\ Delivered.timestamp < clock - Window
    /\ result = "error"
    /\ Len(returned) = 2
    /\ Len(dapp_interactions) = 1
    /\ dapp_interactions[1].transaction_digest = "tx0"
    /\ Len(dapp_rankings) = 1


\* ------------------------------------ properties: the recomputation policy

LoggedSenders(dapp_name) ==
    {dapp_interactions[i].sender :
        i \in {j \in 1..Len(dapp_interactions) :
                  dapp_names[dapp_interactions[j].package_id][1] = dapp_name}}

\* The ranking is the calculator's result for the log as it is after the
\* step, at the clock reading of the step.
RankingOfLogAfterStep ==
    /\ \A dapp_name \in DappNameSet :
           ScoreOf(dapp_rankings', dapp_name) =
               Cardinality(SendersOf(dapp_interactions', clock, dapp_name))
    /\ Len(dapp_rankings') =
           Cardinality({dapp_name \in DappNameSet :
               SendersOf(dapp_interactions', clock, dapp_name) # {}})

C28_PersistedReplica ==
    /\ result = "ok" => table = RowsOf(dapp_rankings)
    /\ \/ table = RowsOf(dapp_rankings)
       \/ table = committed


\* ------------------------------------------------- the pool and the job

\* main() has reset the table and started the ranking job; the executor
\* has two more checkpoints to hand to the pool.
InitLive ==
    /\ clock = 0
    /\ dapp_interactions = <<>>
    /\ dapp_rankings = <<>>
    /\ last_processed_checkpoint = 0
    /\ registry_order = <<CetusA, CetusB, Turbos>>
    /\ mutex = Free
    /\ pc = [t \in Tasks |-> "idle"]
    /\ main_pc = "running"
    /\ use_database = TRUE
    /\ checkpoint = [w \in Workers |-> NoCheckpoint]
    /\ next_checkpoint = MaxBatches - 2
    /\ result = "none"
    /\ table = {}
    /\ committed = {}
    /\ publish_prior = {}
    /\ save_prior = {}
    /\ stage = "system"
    /\ calc_input = <<>>
    /\ returned = <<>>

NextLive ==
    \/ IntervalTick
    \/ RankingJob
    \/ \E w \in Workers : Deliver(w)
    \/ \E w \in Workers : ProcessCheckpoint(w)
    \/ \E t \in Tasks : CleanupStep(t)
    \/ \E t \in Tasks : SaveDeleteStep(t)
    \/ \E t \in Tasks : SaveInsertStep(t)

\* The lock is fair: a task that finds it free again and again while it
\* waits is granted it. Every database call returns.
LiveFairness ==
    /\ SF_vars(RankingJob)
    /\ \A w \in Workers : []<>LockGranted(w) => []<>(pc[w] # "wait")
    /\ WF_vars(\E t \in Tasks : CleanupStep(t))
    /\ WF_vars(\E t \in Tasks : SaveDeleteStep(t))
    /\ WF_vars(\E t \in Tasks : SaveInsertStep(t))

SpecLive == InitLive /\ [][NextLive]_vars /\ LiveFairness

\* ------------------------------------------ properties: the lock is released

\* The lock is held by a task inside its critical section and by no other.
HolderInCritical ==
    /\ mutex # Free => InCritical(mutex)
    /\ \A t \in Tasks : InCritical(t) => mutex = t

\* A task that leaves its critical section, whatever the outcome of the
\* database calls, leaves the lock free.
LeavingReleases ==
    \A t \in Tasks : (InCritical(t) /\ ~InCritical(t)') =>
        (mutex' = Free /\ pc'[t] = "idle")

\* C29: the lock is released on every way out of a critical section, also
\* when the cleanup or the publish fails; with database calls that return
\* and a lock that is granted to every task that waits, every checkpoint
\* handed to a worker is processed, every tick of the job completes its
\* cycle, and a task never waits for a lock that no running task holds.
C29_LockReleasedAndLive ==
    /\ []HolderInCritical
    /\ [][LeavingReleases]_vars
    /\ \A t \in Tasks : (pc[t] = "wait") ~> (pc[t] = "idle")

\* Both checkpoints were processed and the lock is free after a publish
\* that failed.
C29_Witness ==
    /\ next_checkpoint = MaxBatches
    /\ \A t \in Tasks : pc[t] = "idle"
    /\ mutex = Free
    /\ result = "error"
    /\ last_processed_checkpoint >= FirstCheckpoint + MaxBatches - 2
    /\ Len(dapp_interactions) >= 2


\* ------------------------------------ properties: the representative package

\* C30: in a computed ranking every entry's package_id is a key of the
\* registry under which the registry has the entry's name and type (never
\* the fallbacks "unknown" and "Unknown"), and no two entries have the same
\* package_id, so the rows of the list repeat no key of the table.
C30_RepresentativeKeys ==
    Computed =>
        /\ \A i \in 1..Len(dapp_rankings) :
               /\ dapp_rankings[i].package_id \in DOMAIN dapp_names
               /\ dapp_names[dapp_rankings[i].package_id] =
                      <<dapp_rankings[i].dapp_name, dapp_rankings[i].dapp_type>>
               /\ dapp_rankings[i].package_id # "unknown"
               /\ dapp_rankings[i].dapp_type # "Unknown"
        /\ \A i, j \in 1..Len(dapp_rankings) :
               dapp_rankings[i].package_id = dapp_rankings[j].package_id => i = j
        /\ \A r1, r2 \in RowsOf(dapp_rankings) :
               r1.package_id = r2.package_id => r1 = r2

\* A ranking of two applications, one of them under a package of its name
\* that is not the package of any interaction in the log.
C30_Witness ==
    /\ Computed
    /\ Len(dapp_rankings) = 2
    /\ \E i \in 1..Len(dapp_rankings) :
           \A k \in 1..Len(dapp_interactions) :
               dapp_interactions[k].package_id # dapp_rankings[i].package_id


\* --------------------------------------- properties: the checkpoint number

\* C31: last_processed_checkpoint never decreases after the reset at
\* startup, whichever worker of the pool processes which checkpoint.
C31_CheckpointNeverDecreases ==
    [][(main_pc = "running" /\ use_database) =>
           last_processed_checkpoint' >= last_processed_checkpoint]_vars

\* ------------------------------------------------------ the reset's driver

\* The checkpoint numbers an indexer may have stored.
ResetNumbers == {0, 10}

\* main() is about to start on an indexer that holds a log, a ranking of
\* that log and a checkpoint number, with any rows in the table.
InitReset ==
    /\ clock = 1
    /\ dapp_interactions \in TableLogs
    /\ registry_order = <<CetusA, CetusB, Turbos>>
    /\ dapp_rankings \in
           {update_dapp_rankings_24h(dapp_interactions, clock, hash_order,
                                     registry_order) : hash_order \in HashOrders}
    /\ last_processed_checkpoint \in ResetNumbers
    /\ mutex = Free
    /\ pc = [t \in Tasks |-> "idle"]
    /\ main_pc = "start"
    /\ use_database \in BOOLEAN
    /\ checkpoint = [w \in Workers |-> NoCheckpoint]
    /\ next_checkpoint = 0
    /\ result = "none"
    /\ table \in SUBSET TableRows
    /\ committed = table
    /\ publish_prior = {}
    /\ save_prior = {}
    /\ stage = "system"
    /\ calc_input = <<>>
    /\ returned = <<>>

NextReset ==
    \/ StartWithoutDatabase
    \/ StartReset

SpecReset == InitReset /\ [][NextReset]_vars

\* ------------------------------------------------- properties: the reset

\* C32: reset_database_and_memory either fails, returns the error and
\* leaves the log, the ranking and the checkpoint number as they were, or
\* succeeds and leaves the table, the log and the ranking empty and the
\* checkpoint number 0; the registry is the same afterwards in both cases.
C32_ResetAllOrNothing ==
    [][(main_pc = "start" /\ use_database /\ main_pc' # "start")
          => /\ registry_order' = registry_order
             /\ main_pc' \in {"running", "exited"}
             /\ main_pc' = "exited" =>
                    UNCHANGED <<dapp_interactions, dapp_rankings,
                                last_processed_checkpoint>>
             /\ main_pc' = "running" =>
                    /\ table' = {}
                    /\ dapp_interactions' = <<>>
                    /\ dapp_rankings' = <<>>
                    /\ last_processed_checkpoint' = 0]_vars

\* The reset failed on an indexer that held a log, a ranking and a
\* checkpoint number: main() has returned the error and they are all there.
C32_Witness ==
    /\ main_pc = "exited"
    /\ use_database
    /\ dapp_interactions # <<>>
    /\ dapp_rankings # <<>>
    /\ last_processed_checkpoint = 10
    /\ table # {}

====
